---- MODULE Spec2Model ----
(***************************************************************************)
(* Model of the Dashboard page (src/src/components/pages/Dashboard.jsx):   *)
(* the view state held by useState, the loader loadDashboardData with its  *)
(* Promise.all fan-out of five reads, and the two alert handlers.          *)
(* JavaScript runs every synchronous stretch of a handler to completion,   *)
(* so one action is one such stretch: the part of a handler before its     *)
(* await, or the part that runs when the awaited promise settles.          *)
(***************************************************************************)
EXTENDS Integers, Sequences, FiniteSets

VARIABLES stats, recentActivities, alerts, isLoading, error,
          db, loads, calls, toastSuccess, toastError

vars == <<stats, recentActivities, alerts, isLoading, error,
          db, loads, calls, toastSuccess, toastError>>

view == <<stats, recentActivities, alerts, isLoading, error>>

(* ------------------------------ bounds --------------------------------- *)
\* invocations of loadDashboardData in one run
MaxLoads == 4
\* handler calls (dismiss or complete) in one run
MaxCalls == 2
\* length of the deal lists drawn as input
MaxDeals == 2
\* length of the contact lists drawn as input
MaxContacts == 2
\* length of the task lists drawn as input
MaxTasks == 2
\* length of the short activity lists drawn as input
MaxShort == 2
\* timestamps of the short activity lists
MaxStamp == 3
\* length of the long activity lists drawn as input
MaxActs == 12
\* rotations of the long activity lists
MaxShift == 3

(* --------------------------- program constants ------------------------- *)
RecentLimit == 10
LoadErrorMessage == "Failed to load dashboard data"
ClosedStages == {"Won", "Lost"}
Reads == {"contacts", "deals", "tasks", "activities", "alerts"}

(* ------------------------------ helpers -------------------------------- *)
Min(a, b) == IF a < b THEN a ELSE b

RECURSIVE SumValues(_)
\* deals.reduce((sum, deal) => sum + deal.value, 0)
SumValues(ds) ==
  IF ds = <<>> THEN 0 ELSE SumValues(SubSeq(ds, 1, Len(ds) - 1)) + ds[Len(ds)].value

\* the filter with "Lost" left out of the list
IsActiveDealWonOnly(d) == d.stage # "Won"

IsActiveDeal(d) == d.stage \notin ClosedStages

ActiveDeals(deals) == SelectSeq(deals, IsActiveDeal)

IsCompleted(t) == t.completed

CompletedTasks(tasks) == Len(SelectSeq(tasks, IsCompleted))

ComputeStats(contacts, deals, tasks) ==
  [ totalContacts  |-> Len(contacts),
    totalDeals     |-> Len(ActiveDeals(deals)),
    pipelineValue  |-> SumValues(ActiveDeals(deals)),
    completedTasks |-> CompletedTasks(tasks) ]

\* the comparator with its operands swapped: oldest first
CompareOldestFirst(a, b) == a.timestamp - b.timestamp

\* the comparator (a, b) => new Date(b.timestamp) - new Date(a.timestamp)
CompareActivities(a, b) == b.timestamp - a.timestamp

RECURSIVE InsertSorted(_, _)
\* x goes after every element it does not sort strictly before (stable)
InsertSorted(x, s) ==
  IF s = <<>> THEN <<x>>
  ELSE IF CompareActivities(x, s[1]) < 0 THEN <<x>> \o s
  ELSE <<s[1]>> \o InsertSorted(x, Tail(s))

RECURSIVE SortActivities(_)
\* Array.prototype.sort with the comparator: a stable sort
SortActivities(s) ==
  IF s = <<>> THEN <<>>
  ELSE InsertSorted(s[Len(s)], SortActivities(SubSeq(s, 1, Len(s) - 1)))

Slice(s, n) == SubSeq(s, 1, Min(Len(s), n))

RecentOf(activities) == Slice(SortActivities(activities), RecentLimit)

(* ------------------------------ the loader ----------------------------- *)
PendingRead == [st |-> "pending", val |-> <<>>]

NewLoad(cause) ==
  [status |-> "pending", cause |-> cause, reads |-> [r \in Reads |-> PendingRead]]

\* a rejected Promise.all drops whatever its reads had delivered
FailedLoad(cause) == [NewLoad(cause) EXCEPT !.status = "failed"]

AllResolved(l) == \A r \in Reads : loads[l].reads[r].st = "resolved"

InFlight(l) == l \in DOMAIN loads /\ loads[l].status = "pending"

\* loadDashboardData up to its await: lines 34-44
StartLoad(cause) ==
  /\ isLoading' = TRUE
  /\ error' = ""
  /\ loads' = Append(loads, NewLoad(cause))

InitialStats ==
  [totalContacts |-> 0, totalDeals |-> 0, pipelineValue |-> 0, completedTasks |-> 0]

InitView ==
  /\ stats = InitialStats
  /\ recentActivities = <<>>
  /\ alerts = <<>>
  /\ isLoading = TRUE
  /\ error = ""
  /\ loads = <<>>
  /\ calls = <<>>
  /\ toastSuccess = 0
  /\ toastError = 0

FixtureDb ==
  [ contacts   |-> <<[Id |-> 1], [Id |-> 2]>>,
    deals      |-> <<[value |-> 100, stage |-> "Open"], [value |-> 50, stage |-> "Won"]>>,
    tasks      |-> <<[Id |-> 1, completed |-> FALSE], [Id |-> 2, completed |-> FALSE]>>,
    activities |-> <<[Id |-> 1, timestamp |-> 1], [Id |-> 2, timestamp |-> 2]>>,
    alerts     |-> <<[Id |-> 1, taskId |-> 1], [Id |-> 2, taskId |-> 1],
                     [Id |-> 3, taskId |-> 2]>> ]

Init == InitView /\ db = FixtureDb

\* useEffect(() => { loadDashboardData(); }, [])
Mount ==
  /\ loads = <<>>
  /\ StartLoad("mount")
  /\ UNCHANGED <<stats, recentActivities, alerts, db, calls, toastSuccess, toastError>>

\* one of the five getAll() promises fulfils with the collection as it is now
ReadResolve(l, r) ==
  /\ InFlight(l)
  /\ loads[l].reads[r].st = "pending"
  /\ loads' = [loads EXCEPT ![l].reads[r] = [st |-> "resolved", val |-> db[r]]]
  /\ UNCHANGED <<view, db, calls, toastSuccess, toastError>>

\* the catch block also emptying the alert list
ReadRejectClearsAlerts(l, r) ==
  /\ l \in DOMAIN loads /\ loads[l].status = "pending"
  /\ loads[l].reads[r].st = "pending"
  /\ loads' = [loads EXCEPT ![l] = FailedLoad(loads[l].cause)]
  /\ error' = LoadErrorMessage
  /\ isLoading' = FALSE
  /\ alerts' = <<>>
  /\ UNCHANGED <<stats, recentActivities, db, calls, toastSuccess, toastError>>

\* one of the five getAll() promises rejects: Promise.all rejects at once and
\* the catch and finally blocks run
ReadReject(l, r) ==
  /\ InFlight(l)
  /\ loads[l].reads[r].st = "pending"
  /\ loads' = [loads EXCEPT ![l] = FailedLoad(loads[l].cause)]
  /\ error' = LoadErrorMessage
  /\ isLoading' = FALSE
  /\ UNCHANGED <<stats, recentActivities, alerts, db, calls, toastSuccess, toastError>>

\* all five fulfilled: the rest of the try block and the finally block run
LoadApply(l) ==
  /\ InFlight(l)
  /\ AllResolved(l)
  /\ LET rd == loads[l].reads IN
       /\ stats' = ComputeStats(rd["contacts"].val, rd["deals"].val, rd["tasks"].val)
       /\ recentActivities' = RecentOf(rd["activities"].val)
       /\ alerts' = rd["alerts"].val
  /\ isLoading' = FALSE
  /\ loads' = [loads EXCEPT ![l].status = "ok"]
  /\ UNCHANGED <<error, db, calls, toastSuccess, toastError>>

ViewReady == ~isLoading /\ error = ""
ViewError == ~isLoading /\ error # ""

\* loads already started plus those pending completions will start
LoadsCommitted ==
  Len(loads) + Cardinality({c \in DOMAIN calls :
                              calls[c].kind = "complete" /\ ~calls[c].done})

\* <Error message={error} onRetry={loadDashboardData} />
Retry ==
  /\ ViewError
  /\ LoadsCommitted < MaxLoads
  /\ StartLoad("retry")
  /\ UNCHANGED <<stats, recentActivities, alerts, db, calls, toastSuccess, toastError>>

(* ------------------------------ the handlers --------------------------- *)
NewCall(kind, arg) == [kind |-> kind, arg |-> arg, st |-> "pending", done |-> FALSE]

DisplayedIds == {alerts[i].Id : i \in DOMAIN alerts}
DisplayedTaskIds == {alerts[i].taskId : i \in DOMAIN alerts} \ {0}

\* handleDismissAlert up to its await (line 75); AlertBanner is on screen
DismissCall(alertId) ==
  /\ ViewReady
  /\ Len(calls) < MaxCalls
  /\ alertId \in DisplayedIds
  /\ calls' = Append(calls, NewCall("dismiss", alertId))
  /\ UNCHANGED <<view, db, loads, toastSuccess, toastError>>

\* handleCompleteTask up to its await (line 86)
CompleteCall(taskId) ==
  /\ ViewReady
  /\ Len(calls) < MaxCalls
  /\ LoadsCommitted < MaxLoads
  /\ taskId \in DisplayedTaskIds
  /\ calls' = Append(calls, NewCall("complete", taskId))
  /\ UNCHANGED <<view, db, loads, toastSuccess, toastError>>

Awaiting(c, kind) ==
  c \in DOMAIN calls /\ calls[c].kind = kind /\ calls[c].st = "pending"

Returned(c, kind) ==
  c \in DOMAIN calls /\ calls[c].kind = kind /\ calls[c].st = "fulfilled" /\ ~calls[c].done

\* alertService.dismissAlert deletes the alert; a missing alert is an error
ServeDismiss(c) ==
  /\ Awaiting(c, "dismiss")
  /\ \E i \in DOMAIN db.alerts : db.alerts[i].Id = calls[c].arg
  /\ db' = [db EXCEPT !.alerts = SelectSeq(@, LAMBDA a : a.Id # calls[c].arg)]
  /\ calls' = [calls EXCEPT ![c].st = "fulfilled"]
  /\ UNCHANGED <<view, loads, toastSuccess, toastError>>

\* alertService.completeTask marks the task completed and drops its alerts
ServeComplete(c) ==
  /\ Awaiting(c, "complete")
  /\ \E i \in DOMAIN db.tasks : db.tasks[i].Id = calls[c].arg
  /\ db' = [db EXCEPT
              !.tasks = [i \in DOMAIN @ |->
                           IF @[i].Id = calls[c].arg
                           THEN [@[i] EXCEPT !.completed = TRUE] ELSE @[i]],
              !.alerts = SelectSeq(@, LAMBDA a : a.taskId # calls[c].arg)]
  /\ calls' = [calls EXCEPT ![c].st = "fulfilled"]
  /\ UNCHANGED <<view, loads, toastSuccess, toastError>>

\* the filter comparing the wrong field
WithoutIdByTask(list, alertId) == SelectSeq(list, LAMBDA a : a.taskId # alertId)

WithoutId(list, alertId) == SelectSeq(list, LAMBDA a : a.Id # alertId)

WithoutTask(list, taskId) == SelectSeq(list, LAMBDA a : a.taskId # taskId)

\* handleDismissAlert after a fulfilled await: lines 76-77
DismissReturn(c) ==
  /\ Returned(c, "dismiss")
  /\ alerts' = WithoutId(alerts, calls[c].arg)
  /\ toastSuccess' = toastSuccess + 1
  /\ calls' = [calls EXCEPT ![c].done = TRUE]
  /\ UNCHANGED <<stats, recentActivities, isLoading, error, db, loads, toastError>>

\* the handler without its call of loadDashboardData
CompleteReturnNoReload(c) ==
  /\ Returned(c, "complete")
  /\ alerts' = WithoutTask(alerts, calls[c].arg)
  /\ toastSuccess' = toastSuccess + 1
  /\ calls' = [calls EXCEPT ![c].done = TRUE]
  /\ UNCHANGED <<stats, recentActivities, isLoading, error, loads, db, toastError>>

\* handleCompleteTask after a fulfilled await: lines 87-90
CompleteReturn(c) ==
  /\ Returned(c, "complete")
  /\ alerts' = WithoutTask(alerts, calls[c].arg)
  /\ StartLoad("complete")
  /\ toastSuccess' = toastSuccess + 1
  /\ calls' = [calls EXCEPT ![c].done = TRUE]
  /\ UNCHANGED <<stats, recentActivities, db, toastError>>

\* the success notification placed after the try statement
CallRejectToastsSuccess(c) ==
  /\ c \in DOMAIN calls
  /\ calls[c].st = "pending"
  /\ calls' = [calls EXCEPT ![c].st = "rejected", ![c].done = TRUE]
  /\ toastError' = toastError + 1
  /\ toastSuccess' = toastSuccess + 1
  /\ UNCHANGED <<view, db, loads>>

\* the awaited service call rejects: the catch block of either handler runs
CallReject(c) ==
  /\ c \in DOMAIN calls
  /\ calls[c].st = "pending"
  /\ calls' = [calls EXCEPT ![c].st = "rejected", ![c].done = TRUE]
  /\ toastError' = toastError + 1
  /\ UNCHANGED <<view, db, loads, toastSuccess>>

AlertIds == {FixtureDb.alerts[i].Id : i \in DOMAIN FixtureDb.alerts}
TaskIds == {FixtureDb.tasks[i].Id : i \in DOMAIN FixtureDb.tasks}

LoaderNext ==
  \/ Mount
  \/ \E l \in DOMAIN loads, r \in Reads : ReadResolve(l, r)
  \/ \E l \in DOMAIN loads, r \in Reads : ReadReject(l, r)
  \/ \E l \in DOMAIN loads : LoadApply(l)
  \/ Retry

Next ==
  \/ Mount
  \/ \E l \in DOMAIN loads, r \in Reads : ReadResolve(l, r)
  \/ \E l \in DOMAIN loads, r \in Reads : ReadReject(l, r)
  \/ \E l \in DOMAIN loads : LoadApply(l)
  \/ Retry
  \/ \E x \in AlertIds : DismissCall(x)
  \/ \E t \in TaskIds : CompleteCall(t)
  \/ \E c \in DOMAIN calls : ServeDismiss(c)
  \/ \E c \in DOMAIN calls : ServeComplete(c)
  \/ \E c \in DOMAIN calls : DismissReturn(c)
  \/ \E c \in DOMAIN calls : CompleteReturn(c)
  \/ \E c \in DOMAIN calls : CallReject(c)

Spec == Init /\ [][Next]_vars

(* ------------------- the loader over drawn collections ----------------- *)
SeqsUpTo(S, n) == UNION {[1..k -> S] : k \in 0..n}

Stages == {"Open", "Negotiation", "Won", "Lost"}
DealValues == {50, 100}
Deals == [value : DealValues, stage : Stages]

ExampleDeals ==
  << [value |-> 100, stage |-> "Open"], [value |-> 50, stage |-> "Won"],
     [value |-> 30, stage |-> "Negotiation"] >>

DealInputs == SeqsUpTo(Deals, MaxDeals) \cup {ExampleDeals}

ContactInputs == {[i \in 1..k |-> [Id |-> i]] : k \in 0..MaxContacts}

TaskInputs ==
  {[i \in DOMAIN bs |-> [Id |-> i, completed |-> bs[i]]] : bs \in SeqsUpTo(BOOLEAN, MaxTasks)}

\* short lists: every order, equal timestamps included
ShortActivities ==
  {[i \in DOMAIN ts |-> [Id |-> i, timestamp |-> ts[i]]] : ts \in SeqsUpTo(1..MaxStamp, MaxShort)}

\* long lists, longer than the page shows: timestamps 1..n rotated by k, in
\* ascending and in descending order
Rotated(n, k, up) ==
  [i \in 1..n |-> [Id |-> i,
                   timestamp |-> IF up THEN ((i + k) % n) + 1 ELSE n - ((i + k) % n)]]

LongActivities ==
  {Rotated(n, k, up) : n \in (MaxActs - 1)..MaxActs, k \in 0..MaxShift, up \in BOOLEAN}

ActivityInputs == ShortActivities \cup LongActivities

DataDbs ==
  {[FixtureDb EXCEPT !.deals = d, !.contacts = c] : d \in DealInputs, c \in ContactInputs}
  \cup
  {[FixtureDb EXCEPT !.tasks = t, !.activities = a] : t \in TaskInputs, a \in ActivityInputs}

InitData == InitView /\ db \in DataDbs

SpecData == InitData /\ [][LoaderNext]_vars

(* ------------------------------ properties ----------------------------- *)
Range(s) == {s[i] : i \in DOMAIN s}

\* load l settles in this step, fulfilled or rejected
Fulfils(l) == loads[l].status = "pending" /\ loads'[l].status = "ok"
Rejects(l) == loads[l].status = "pending" /\ loads'[l].status = "failed"

\* the indices of list whose entry passes Keep, and the list they leave
KeptIndices(list, Keep(_)) == {i \in DOMAIN list : Keep(list[i])}

IsRestriction(after, before, Keep(_)) ==
  LET kept == KeptIndices(before, Keep) IN
    /\ Len(after) = Cardinality(kept)
    /\ \A i \in kept : after[Cardinality({j \in kept : j <= i})] = before[i]

RECURSIVE SumOver(_, _)
SumOver(deals, idx) ==
  IF idx = {} THEN 0
  ELSE LET i == CHOOSE j \in idx : TRUE IN deals[i].value + SumOver(deals, idx \ {i})

\* C1: loadDashboardData writes stats, recentActivities and alerts only in
\* the one step that follows the fulfilment of all five of its reads, all
\* three in that step; a load one of whose reads rejects changes none of the
\* three, sets error to the generic message and leaves isLoading false.
C1_LoadAllOrNothing ==
  [][ /\ (stats' # stats \/ recentActivities' # recentActivities)
           => \E l \in DOMAIN loads : Fulfils(l)
      /\ \A l \in DOMAIN loads :
           /\ Fulfils(l) =>
                /\ \A r \in Reads : loads[l].reads[r].st = "resolved"
                /\ stats'.totalContacts = Len(loads[l].reads["contacts"].val)
                /\ Len(recentActivities') <= Len(loads[l].reads["activities"].val)
                /\ Range(recentActivities') \subseteq Range(loads[l].reads["activities"].val)
                /\ alerts' = loads[l].reads["alerts"].val
                /\ error' = error
                /\ isLoading' = FALSE
           /\ Rejects(l) =>
                /\ stats' = stats
                /\ recentActivities' = recentActivities
                /\ alerts' = alerts
                /\ error' = "Failed to load dashboard data"
                /\ isLoading' = FALSE
    ]_vars

\* a load has failed after an earlier one had filled the view: the data of
\* the earlier load is still there, under the error message
C1_Witness ==
  /\ \E l \in DOMAIN loads : loads[l].status = "failed"
  /\ \E l \in DOMAIN loads : loads[l].status = "ok"
  /\ error = "Failed to load dashboard data"
  /\ ~isLoading
  /\ stats.totalContacts = 2
  /\ alerts # <<>>

DismissReturns(c) ==
  calls[c].kind = "dismiss" /\ calls[c].st = "fulfilled" /\ ~calls[c].done /\ calls'[c].done

CompleteReturns(c) ==
  calls[c].kind = "complete" /\ calls[c].st = "fulfilled" /\ ~calls[c].done /\ calls'[c].done

CallFails(c) == calls[c].st = "pending" /\ calls'[c].st = "rejected"

\* C2: when dismissAlert(X) has succeeded, the handler leaves the alert list
\* as it was minus the entries with Id X, the others in their order; stats,
\* recentActivities, isLoading and error stay, no load starts and no read is
\* touched, and one success notification is shown.
C2_DismissRemovesExactlyX ==
  [][ \A c \in DOMAIN calls :
        DismissReturns(c) =>
          /\ IsRestriction(alerts', alerts, LAMBDA a : a.Id # calls[c].arg)
          /\ UNCHANGED <<stats, recentActivities, isLoading, error, loads>>
          /\ toastSuccess' = toastSuccess + 1
          /\ toastError' = toastError
    ]_vars

\* alert 2 was dismissed from the list <<1, 2, 3>>: 1 and 3 remain, in order
C2_Witness ==
  /\ \E c \in DOMAIN calls :
       calls[c].kind = "dismiss" /\ calls[c].arg = 2 /\ calls[c].st = "fulfilled" /\ calls[c].done
  /\ Len(alerts) = 2 /\ alerts[1].Id = 1 /\ alerts[2].Id = 3
  /\ toastSuccess = 1

\* C3: when completeTask(T) has succeeded, the handler removes every alert
\* with taskId T and keeps the others, and starts exactly one load: one new
\* invocation whose five reads are all still to come, in a state where the
\* alerts of T are already gone.
C3_CompleteRemovesAndReloadsOnce ==
  [][ \A c \in DOMAIN calls :
        CompleteReturns(c) =>
          /\ IsRestriction(alerts', alerts, LAMBDA a : a.taskId # calls[c].arg)
          /\ Len(loads') = Len(loads) + 1
          /\ \A l \in DOMAIN loads : loads'[l] = loads[l]
          /\ loads'[Len(loads')].status = "pending"
          /\ \A r \in Reads : loads'[Len(loads')].reads[r].st = "pending"
          /\ isLoading' = TRUE
          /\ toastSuccess' = toastSuccess + 1
    ]_vars

\* task 1 was completed while alerts 1, 2 (task 1) and 3 (task 2) were
\* shown: alert 3 alone remains and the reload is under way
C3_Witness ==
  /\ \E c \in DOMAIN calls :
       calls[c].kind = "complete" /\ calls[c].arg = 1 /\ calls[c].st = "fulfilled" /\ calls[c].done
  /\ Len(alerts) = 1 /\ alerts[1].Id = 3
  /\ Len(loads) = 2 /\ loads[2].status = "pending" /\ loads[2].cause = "complete"

\* C4: when dismissAlert or completeTask rejects, the handler leaves alerts,
\* stats, recentActivities, isLoading and error as they were, starts no load,
\* shows one error notification and no success notification, and returns.
C4_FailedActionChangesNothing ==
  [][ \A c \in DOMAIN calls :
        CallFails(c) =>
          /\ UNCHANGED <<alerts, stats, recentActivities, isLoading, error, loads>>
          /\ toastError' = toastError + 1
          /\ toastSuccess' = toastSuccess
          /\ calls'[c].done
    ]_vars

\* a dismissal and a completion have both failed: the three alerts are all
\* still shown and nothing was reloaded
C4_Witness ==
  /\ \E c \in DOMAIN calls : calls[c].kind = "dismiss" /\ calls[c].st = "rejected"
  /\ \E c \in DOMAIN calls : calls[c].kind = "complete" /\ calls[c].st = "rejected"
  /\ Len(alerts) = 3
  /\ Len(loads) = 1
  /\ toastError = 2 /\ toastSuccess = 0

\* C5: after a load whose five reads fulfilled, totalDeals is the number of
\* deals that are neither Won nor Lost, pipelineValue the sum of their
\* values, completedTasks the number of completed tasks and totalContacts
\* the number of contacts.
C5_StatsFromCollections ==
  [][ \A l \in DOMAIN loads :
        Fulfils(l) =>
          LET deals == loads[l].reads["deals"].val
              tasks == loads[l].reads["tasks"].val
              open  == {i \in DOMAIN deals : deals[i].stage # "Won" /\ deals[i].stage # "Lost"}
          IN /\ stats'.totalDeals = Cardinality(open)
             /\ stats'.pipelineValue = SumOver(deals, open)
             /\ stats'.completedTasks = Cardinality({i \in DOMAIN tasks : tasks[i].completed = TRUE})
             /\ stats'.totalContacts = Len(loads[l].reads["contacts"].val)
    ]_vars

\* the deals Open 100, Won 50, Negotiation 30 were loaded: 2 deals, 130
C5_Witness ==
  /\ \E l \in DOMAIN loads :
       loads[l].status = "ok" /\ loads[l].reads["deals"].val = ExampleDeals
  /\ stats.totalDeals = 2
  /\ stats.pipelineValue = 130

DistinctStamps(acts) ==
  \A i, j \in DOMAIN acts : i # j => acts[i].timestamp # acts[j].timestamp

\* C6: after a load whose five reads fulfilled and whose N activities have
\* distinct timestamps, recentActivities is the min(N, 10) activities with
\* the greatest timestamps, in strictly descending order of timestamp.
C6_RecentIsTopTen ==
  [][ \A l \in DOMAIN loads :
        LET acts == loads[l].reads["activities"].val
            shown == recentActivities'
        IN (Fulfils(l) /\ DistinctStamps(acts)) =>
             /\ Len(shown) = (IF Len(acts) < 10 THEN Len(acts) ELSE 10)
             /\ \A i, j \in DOMAIN shown : i < j => shown[i].timestamp > shown[j].timestamp
             /\ Range(shown) \subseteq Range(acts)
             /\ \A a \in Range(acts) \ Range(shown) :
                  \A b \in Range(shown) : b.timestamp > a.timestamp
    ]_vars

\* twelve activities with distinct timestamps, not in order, were loaded:
\* the ten shown run from timestamp 12 down to 3
C6_Witness ==
  /\ \E l \in DOMAIN loads :
       /\ loads[l].status = "ok"
       /\ Len(loads[l].reads["activities"].val) = 12
       /\ loads[l].reads["activities"].val[1].timestamp = 3
  /\ Len(recentActivities) = 10
  /\ recentActivities[1].timestamp = 12
  /\ recentActivities[10].timestamp = 3

\* C7: retry, offered in the error state, starts a load that sets isLoading,
\* clears error and issues all five reads; when the five fulfil the view is
\* ready (isLoading false, error empty), when one rejects it is in the error
\* state again.
C7_RetryRecovers ==
  [][ /\ (Len(loads') = Len(loads) + 1 /\ loads'[Len(loads')].cause = "retry") =>
           /\ ~isLoading /\ error # ""
           /\ isLoading' /\ error' = ""
           /\ \A r \in Reads : loads'[Len(loads')].reads[r].st = "pending"
      /\ \A l \in DOMAIN loads :
           /\ (loads[l].cause = "retry" /\ Fulfils(l)) =>
                /\ ~isLoading' /\ error' = ""
                /\ alerts' = loads[l].reads["alerts"].val
           /\ (loads[l].cause = "retry" /\ Rejects(l)) =>
                ~isLoading' /\ error' # ""
    ]_vars

\* C8: whenever an invocation of loadDashboardData has started and has not
\* settled, isLoading is true.
C8_LoadingWhileInFlight ==
  (\E l \in DOMAIN loads : loads[l].status = "pending") => isLoading

\* C9: once no load is in flight, the view shows the outcome of the load
\* started last: error is non-empty exactly when that load failed, and stats
\* and recentActivities are those of its reads when it succeeded.
C9_LastStartedLoadWins ==
  (loads # <<>> /\ \A l \in DOMAIN loads : loads[l].status # "pending") =>
    LET last == loads[Len(loads)] IN
      /\ (error # "") <=> (last.status = "failed")
      /\ last.status = "ok" =>
           /\ stats.completedTasks =
                Cardinality({i \in DOMAIN last.reads["tasks"].val :
                               last.reads["tasks"].val[i].completed})
           /\ Range(recentActivities) \subseteq Range(last.reads["activities"].val)

\* C10: an alert whose dismissal has succeeded and been applied is never in
\* the local list again, and neither is an alert of a task whose completion
\* has succeeded and been applied.
C10_RemovedAlertsStayRemoved ==
  \A c \in DOMAIN calls :
    (calls[c].st = "fulfilled" /\ calls[c].done) =>
      \A i \in DOMAIN alerts :
        /\ calls[c].kind = "dismiss" => alerts[i].Id # calls[c].arg
        /\ calls[c].kind = "complete" => alerts[i].taskId # calls[c].arg
====
